---- MODULE Spec2Model ----
(***************************************************************************)
(* Model of commitizen's `cz init` wizard (commitizen/commands/init.py).   *)
(*                                                                         *)
(* Python strings that the code inspects (startswith, `in`, join, version  *)
(* parsing) are tuples of one-character strings, so that the string        *)
(* operations are computed and not assumed.  Optional values are None      *)
(* (the empty tuple) or Some(x) (a one-element tuple).                     *)
(***************************************************************************)
EXTENDS Integers, Sequences, FiniteSets, TLC

\* ---------------------------------------------------------------- bounds
\* number of times the command is invoked in a row on the same project
MaxRuns == 2
\* longest "repos" list of a pre-existing .pre-commit-config.yaml
MaxRepos == 2

\* ------------------------------------------------------- string literals
\* "toml"
S_toml ==
    <<"t", "o", "m", "l">>
\* "json"
S_json ==
    <<"j", "s", "o", "n">>
\* "yaml"
S_yaml ==
    <<"y", "a", "m", "l">>
\* "pyproject.toml"
S_pyproject_toml ==
    <<"p", "y", "p", "r", "o", "j", "e", "c", "t", ".", "t", "o", "m", "l">>
\* ".cz.toml"
S_cz_toml ==
    <<".", "c", "z", ".", "t", "o", "m", "l">>
\* ".cz.json"
S_cz_json ==
    <<".", "c", "z", ".", "j", "s", "o", "n">>
\* ".cz.yaml"
S_cz_yaml ==
    <<".", "c", "z", ".", "y", "a", "m", "l">>
\* "cz_conventional_commits"
S_cz_conventional_commits ==
    <<"c", "z", "_", "c", "o", "n", "v", "e", "n", "t", "i", "o", "n", "a", "l", "_", "c", "o", "m", "m", "i", "t", "s">>
\* "cz_jira"
S_cz_jira ==
    <<"c", "z", "_", "j", "i", "r", "a">>
\* "v2.3.0"
S_v2_3_0 ==
    <<"v", "2", ".", "3", ".", "0">>
\* "1.0.0"
S_1_0_0 ==
    <<"1", ".", "0", ".", "0">>
\* "rel"
S_rel ==
    <<"r", "e", "l">>
\* "0.0.1"
S_0_0_1 ==
    <<"0", ".", "0", ".", "1">>
\* "v$version"
S_v_version ==
    <<"v", "$", "v", "e", "r", "s", "i", "o", "n">>
\* "$version"
S_version ==
    <<"$", "v", "e", "r", "s", "i", "o", "n">>
\* "ver$version"
S_ver_version ==
    <<"v", "e", "r", "$", "v", "e", "r", "s", "i", "o", "n">>
\* "latest"
S_latest ==
    <<"l", "a", "t", "e", "s", "t">>
\* "commitizen"
S_commitizen ==
    <<"c", "o", "m", "m", "i", "t", "i", "z", "e", "n">>
\* "https://github.com/commitizen-tools/commitizen"
S_cz_repo ==
    <<"h", "t", "t", "p", "s", ":", "/", "/", "g", "i", "t", "h", "u", "b", ".", "c", "o", "m", "/", "c", "o", "m", "m", "i", "t", "i", "z", "e", "n", "-", "t", "o", "o", "l", "s", "/", "c", "o", "m", "m", "i", "t", "i", "z", "e", "n">>
\* "https://github.com/acme/commitizen-fork"
S_fork_repo ==
    <<"h", "t", "t", "p", "s", ":", "/", "/", "g", "i", "t", "h", "u", "b", ".", "c", "o", "m", "/", "a", "c", "m", "e", "/", "c", "o", "m", "m", "i", "t", "i", "z", "e", "n", "-", "f", "o", "r", "k">>
\* "https://github.com/psf/black"
S_black_repo ==
    <<"h", "t", "t", "p", "s", ":", "/", "/", "g", "i", "t", "h", "u", "b", ".", "c", "o", "m", "/", "p", "s", "f", "/", "b", "l", "a", "c", "k">>
\* "https://github.com/pycqa/flake8"
S_flake8_repo ==
    <<"h", "t", "t", "p", "s", ":", "/", "/", "g", "i", "t", "h", "u", "b", ".", "c", "o", "m", "/", "p", "y", "c", "q", "a", "/", "f", "l", "a", "k", "e", "8">>
\* "v1.0.0"
S_v1_0_0 ==
    <<"v", "1", ".", "0", ".", "0">>
\* "22.3.0"
S_22_3_0 ==
    <<"2", "2", ".", "3", ".", "0">>
\* "4.0.1"
S_4_0_1 ==
    <<"4", ".", "0", ".", "1">>
\* "commit-msg"
S_commit_msg ==
    <<"c", "o", "m", "m", "i", "t", "-", "m", "s", "g">>
\* "pre-push"
S_pre_push ==
    <<"p", "r", "e", "-", "p", "u", "s", "h">>
\* "pre-commit install "
S_pre_commit_install ==
    <<"p", "r", "e", "-", "c", "o", "m", "m", "i", "t", " ", "i", "n", "s", "t", "a", "l", "l", " ">>
\* "--hook-type "
S_hook_type ==
    <<"-", "-", "h", "o", "o", "k", "-", "t", "y", "p", "e", " ">>

\* ------------------------------------------------------ Python helpers
None == <<>>
Some(x) == <<x>>

\* truth value of an Optional[bool] answer of questionary.confirm
Truthy(opt) == opt # None /\ opt[1]

\* truth value of an Optional[str] / Optional[list]: None and "" / [] are falsy
NonEmpty(opt) == opt # None /\ Len(opt[1]) > 0

\* str.startswith
StartsWith(s, prefix) ==
    /\ Len(s) >= Len(prefix)
    /\ SubSeq(s, 1, Len(prefix)) = prefix

\* the `in` operator on two strings
Contains(s, sub) ==
    \E i \in 1..(Len(s) - Len(sub) + 1) : SubSeq(s, i, i + Len(sub) - 1) = sub

\* sep.join(parts)
RECURSIVE Join(_, _)
Join(parts, sep) ==
    IF Len(parts) = 0 THEN <<>>
    ELSE IF Len(parts) = 1 THEN parts[1]
    ELSE parts[1] \o sep \o Join(Tail(parts), sep)

RECURSIVE Split(_, _)
Split(s, ch) ==
    IF \A i \in 1..Len(s) : s[i] # ch THEN <<s>>
    ELSE LET i == CHOOSE k \in 1..Len(s) :
                      s[k] = ch /\ \A j \in 1..(k - 1) : s[j] # ch
         IN <<SubSeq(s, 1, i - 1)>> \o Split(SubSeq(s, i + 1, Len(s)), ch)

\* ------------------------------------------- packaging.version.Version
Digits == {"0", "1", "2", "3", "4", "5", "6", "7", "8", "9"}

IsNumber(seg) == Len(seg) > 0 /\ \A i \in 1..Len(seg) : seg[i] \in Digits

\* int(seg) printed back: leading zeros are dropped
RECURSIVE StripZeros(_)
StripZeros(seg) ==
    IF Len(seg) > 1 /\ seg[1] = "0" THEN StripZeros(Tail(seg)) ELSE seg

\* the version pattern accepts an optional leading "v"
VersionBody(tag) == IF StartsWith(tag, <<"v">>) THEN Tail(tag) ELSE tag

\* Version(tag) raises InvalidVersion unless the release is N(.N)*
\* (pre/post/dev/local segments are not in the modelled tag pool)
IsValidVersion(tag) ==
    LET segs == Split(VersionBody(tag), ".")
    IN \A k \in 1..Len(segs) : IsNumber(segs[k])

\* the tag itself in place of its public version
Public_Identity(tag) == tag

\* Version(tag).public
Public(tag) ==
    LET segs == Split(VersionBody(tag), ".")
    IN Join([k \in 1..Len(segs) |-> StripZeros(segs[k])], <<".">>)

\* --------------------------------------------------- ordered mappings
\* a Python dict / a document's top-level mapping: a sequence of
\* <<key, value>> pairs in insertion order, keys distinct
HasKey(d, k) == \E i \in 1..Len(d) : d[i][1] = k

Get(d, k) == d[CHOOSE i \in 1..Len(d) : d[i][1] = k][2]

\* d[k] = v : replaces in place, or inserts at the end
SetItem(d, k, v) ==
    IF HasKey(d, k)
    THEN [i \in 1..Len(d) |-> IF d[i][1] = k THEN <<k, v>> ELSE d[i]]
    ELSE Append(d, <<k, v>>)

Keys(d) == {d[i][1] : i \in 1..Len(d)}

\* ------------------------------------------ .pre-commit-config.yaml
\* commitizen/__version__.py
cz_version == <<"2", ".", "2", "0", ".", "3">>

cz_hook_config ==
    [repo  |-> S_cz_repo,
     rev   |-> <<"v">> \o cz_version,
     hooks |-> << [id |-> "commitizen"],
                  [id |-> "commitizen-branch", stages |-> <<"push">>] >>]

\* entries a project may already have in its "repos" list
black_hook ==
    [repo |-> S_black_repo, rev |-> S_22_3_0, hooks |-> << [id |-> "black"] >>]

flake8_hook ==
    [repo |-> S_flake8_repo, rev |-> S_4_0_1, hooks |-> << [id |-> "flake8"] >>]

\* the tool's entry as an older release wrote it
old_cz_hook ==
    [repo |-> S_cz_repo, rev |-> S_v1_0_0, hooks |-> << [id |-> "commitizen"] >>]

\* another repository whose URL contains "commitizen"
fork_cz_hook ==
    [repo |-> S_fork_repo, rev |-> S_v1_0_0, hooks |-> << [id |-> "commitizen"] >>]

EntryPool == {black_hook, flake8_hook, old_cz_hook, fork_cz_hook}

\* a "repos" list names each repository once
RepoLists ==
    {l \in UNION {[1..n -> EntryPool] : n \in 0..MaxRepos} :
        \A i, j \in 1..Len(l) : l[i] = l[j] => i = j}

fail_fast == <<"fail_fast", TRUE>>

\* the parsed content of an existing file: no top-level pair (an empty
\* file, which yaml.safe_load gives as None), or pairs in file order
FileTexts ==
    {<<>>, <<fail_fast>>}
      \cup {<< <<"repos", l>> >> : l \in RepoLists}
      \cup {<< fail_fast, <<"repos", l>> >> : l \in RepoLists}
      \cup {<< <<"repos", l>>, fail_fast >> : l \in RepoLists}

PreCommitFiles ==
    {[isfile |-> FALSE, text |-> <<>>]}
      \cup {[isfile |-> TRUE, text |-> t] : t \in FileTexts}

\* yaml.safe_load: None for a document without content
safe_load(text) == IF Len(text) = 0 THEN None ELSE Some(text)

\* yaml.safe_dump sorts the keys of a mapping (sort_keys defaults to True)
TopLevelKeys == <<"fail_fast", "repos">>

KeyRank(k) == CHOOSE i \in 1..Len(TopLevelKeys) : TopLevelKeys[i] = k

RECURSIVE InsertSorted(_, _)
InsertSorted(sorted, pair) ==
    IF Len(sorted) = 0 THEN <<pair>>
    ELSE IF KeyRank(pair[1]) < KeyRank(sorted[1][1])
         THEN <<pair>> \o sorted
         ELSE <<sorted[1]>> \o InsertSorted(Tail(sorted), pair)

RECURSIVE safe_dump(_)
safe_dump(data) ==
    IF Len(data) = 0 THEN <<>>
    ELSE InsertSorted(safe_dump(SubSeq(data, 1, Len(data) - 1)), data[Len(data)])

\* `==` in place of `in`
HasCzHook_ExactMatch(repos) ==
    \E i \in 1..Len(repos) : repos[i].repo = S_commitizen

\* `"commitizen" in pre_commit_hook["repo"]` for some entry of the list
HasCzHook(repos) ==
    \E i \in 1..Len(repos) : Contains(repos[i].repo, S_commitizen)

\* the entry is appended without looking for an existing one
MergedRepos_AlwaysAppend(repos) == Append(repos, cz_hook_config)

\* the entry is put in front of the list
MergedRepos_Prepend(repos) ==
    IF HasCzHook(repos) THEN repos ELSE <<cz_hook_config>> \o repos

\* an entry that is found is replaced by the current one
MergedRepos_UpdateRev(repos) ==
    IF HasCzHook(repos)
    THEN [i \in 1..Len(repos) |->
            IF Contains(repos[i].repo, S_commitizen) THEN cz_hook_config
            ELSE repos[i]]
    ELSE Append(repos, cz_hook_config)

\* what the for/else does to config_data["repos"]
MergedRepos(repos) ==
    IF HasCzHook(repos) THEN repos ELSE Append(repos, cz_hook_config)

\* a missing "repos" key replaces the document instead of extending it
MergeConfigData_DropKeys(file) ==
    IF ~file.isfile
    THEN SetItem(<<>>, "repos", <<cz_hook_config>>)
    ELSE LET yaml_data == safe_load(file.text)
             config_data == IF NonEmpty(yaml_data) THEN yaml_data[1] ELSE <<>>
         IN IF HasKey(config_data, "repos")
            THEN SetItem(config_data, "repos",
                         MergedRepos(Get(config_data, "repos")))
            ELSE SetItem(<<>>, "repos", <<cz_hook_config>>)

\* line 154 is missing: a new file is written without the entry
MergeConfigData_AbsentNotFilled(file) ==
    IF ~file.isfile
    THEN <<>>
    ELSE LET yaml_data == safe_load(file.text)
             config_data == IF NonEmpty(yaml_data) THEN yaml_data[1] ELSE <<>>
         IN IF HasKey(config_data, "repos")
            THEN SetItem(config_data, "repos",
                         MergedRepos(Get(config_data, "repos")))
            ELSE SetItem(config_data, "repos", <<cz_hook_config>>)

\* config_data at the time it is dumped
MergeConfigData(file) ==
    IF ~file.isfile
    THEN SetItem(<<>>, "repos", <<cz_hook_config>>)
    ELSE LET yaml_data == safe_load(file.text)
             config_data == IF NonEmpty(yaml_data) THEN yaml_data[1] ELSE <<>>
         IN IF HasKey(config_data, "repos")
            THEN SetItem(config_data, "repos",
                         MergedRepos(Get(config_data, "repos")))
            ELSE SetItem(config_data, "repos", <<cz_hook_config>>)

\* the file after _install_pre_commit_hook rewrote it
MergedFile(file) == [isfile |-> TRUE, text |-> safe_dump(MergeConfigData(file))]

\* "pre-commit install " + "".join(f"--hook-type {ty}" for ty in hook_types)
InstallCmd(hook_types) ==
    S_pre_commit_install
      \o Join([i \in 1..Len(hook_types) |-> S_hook_type \o hook_types[i]], <<>>)

\* ------------------------------------------------ the wizard's inputs
\* commitizen.defaults.config_files, the choices of the first prompt
config_files == {S_cz_toml, S_cz_json, S_cz_yaml}

\* list(registry.keys()), the choices of the second prompt
registry == {S_cz_conventional_commits, S_cz_jira}

\* tags of the repository
TagPool == <<S_1_0_0, S_v2_3_0, S_rel>>

\* what get_latest_tag_name() and get_tag_names() answer for a repository
GitRepos ==
    [latest    : {None} \cup {Some(TagPool[i]) : i \in 1..Len(TagPool)},
     tag_names : {<<>>, TagPool}]

\* answers of questionary.confirm(...).ask(); None when the prompt is cancelled
ConfirmAnswers == {None, Some(TRUE), Some(FALSE)}

\* answers of the free-form tag format prompt
FormatAnswers == {None, Some(<<>>), Some(S_ver_version), Some(S_latest)}

\* answers of the hook type checkbox, in the order of its choices
HookTypeAnswers ==
    {None, Some(<<>>), Some(<<S_commit_msg>>), Some(<<S_pre_push>>),
     Some(<<S_commit_msg, S_pre_push>>)}

\* the configuration read_cfg finds when there is none
BaseConfig == [path |-> None, kind |-> "base", data |-> <<>>]

\* a configuration written by an earlier `cz init`
ExistingConfig ==
    [path |-> Some(S_pyproject_toml), kind |-> "toml",
     data |-> << <<"name", S_cz_jira>>, <<"version", S_1_0_0>>,
                 <<"tag_format", S_version>> >>]

\* the config handed to Init.__init__: the discovered file, if any
read_cfg(fs) == IF fs = None THEN BaseConfig ELSE fs[1]

\* the tag the warning names
DefaultTag_Prefixed == <<"v">> \o S_0_0_1

\* the literal both "No Existing Tag" branches of _ask_tag return
DefaultTag == S_0_0_1

\* ---------------------------------------------------------------- state
VARIABLES
    runs,              \* invocations of the command so far
    pc,                \* the prompt or call __call__ is waiting on
    result,            \* "running", "success" or the exception raised
    trace,             \* prompts asked and external calls made in this run
    self_config,       \* self.config
    fs_config,         \* the configuration file on disk: None or Some(doc)
    git,               \* the repository's answers to the tag queries
    pre_commit_file,   \* .pre-commit-config.yaml
    values_to_add,     \* local of __call__
    latest_tag,        \* local of _ask_tag
    is_correct_tag,    \* None until answered, then Some(answer)
    tag,               \* local of __call__: None until _ask_tag returned
    is_correct_format, \* None until answered, then Some(answer)
    entered_format,    \* None until the free-form prompt was answered
    tag_format,        \* None until _ask_tag_format returned
    hook_types,        \* None until answered, then Some(answer)
    cmd_str            \* None until cmd.run was called, then Some(command)

vars == <<runs, pc, result, trace, self_config, fs_config, git,
          pre_commit_file, values_to_add, latest_tag, is_correct_tag, tag,
          is_correct_format, entered_format, tag_format, hook_types,
          cmd_str>>

\* the locals of one run
locals == <<values_to_add, latest_tag, is_correct_tag, tag,
            is_correct_format, entered_format, tag_format, hook_types,
            cmd_str>>

\* the files the wizard's runs start from: none, an empty one, one without
\* the tool's entry and one that has it
WizardFiles ==
    {[isfile |-> FALSE, text |-> <<>>],
     [isfile |-> TRUE, text |-> <<>>],
     [isfile |-> TRUE, text |-> << fail_fast, <<"repos", <<black_hook>> >> >>],
     [isfile |-> TRUE, text |-> << <<"repos", <<black_hook, old_cz_hook>> >> >>]}

\* the state after Init.__init__, apart from the repository and the hook file
InitRun ==
    /\ runs = 1
    /\ pc = "call"
    /\ result = "running"
    /\ trace = <<>>
    /\ fs_config \in {None, Some(ExistingConfig)}
    /\ self_config = read_cfg(fs_config)
    /\ values_to_add = <<>>
    /\ latest_tag = None
    /\ is_correct_tag = None
    /\ tag = None
    /\ is_correct_format = None
    /\ entered_format = None
    /\ tag_format = None
    /\ hook_types = None
    /\ cmd_str = None

\* the wizard on every repository
Init ==
    /\ InitRun
    /\ git \in GitRepos
    /\ pre_commit_file \in WizardFiles

\* the wizard on every hook file, in a repository whose tags make every
\* prompt reachable
MergeInit ==
    /\ InitRun
    /\ git = [latest |-> Some(S_v2_3_0), tag_names |-> TagPool]
    /\ pre_commit_file \in PreCommitFiles

\* ------------------------------------------------ configuration store
\* the document class chosen from the path, with its initial data
NewConfig(cfg, config_path) ==
    IF Contains(config_path, S_toml)
    THEN [path |-> Some(config_path), kind |-> "toml", data |-> <<>>]
    ELSE IF Contains(config_path, S_json)
    THEN [path |-> Some(config_path), kind |-> "json", data |-> <<>>]
    ELSE IF Contains(config_path, S_yaml)
    THEN [path |-> Some(config_path), kind |-> "yaml", data |-> <<>>]
    ELSE cfg

\* config.set_key(key, value)
set_key(cfg, key, value) == [cfg EXCEPT !.data = SetItem(@, key, value)]

\* _update_config_file: set_key for every item of values, in dict order
RECURSIVE _update_config_file(_, _)
_update_config_file(cfg, values) ==
    IF Len(values) = 0 THEN cfg
    ELSE _update_config_file(set_key(cfg, values[1][1], values[1][2]),
                             Tail(values))

\* the set_key calls _update_config_file makes, in order
SetKeyEvents(values) == [i \in 1..Len(values) |-> <<"set_key", values[i][1]>>]

\* ------------------------------------------------- the command line
\* a word of a command line is not empty
IsWord(w) == Len(w) > 0

\* the words the shell splits a command line into
Words(cmd) == SelectSeq(Split(cmd, " "), IsWord)

\* the option name, as one word
HookTypeOption == SubSeq(S_hook_type, 1, Len(S_hook_type) - 1)

\* the values the words give to --hook-type, in order
RECURSIVE HookTypeValues(_)
HookTypeValues(argv) ==
    IF Len(argv) < 2 THEN <<>>
    ELSE IF argv[1] = HookTypeOption
         THEN <<argv[2]>> \o HookTypeValues(SubSeq(argv, 3, Len(argv)))
         ELSE HookTypeValues(Tail(argv))

\* -------------------------------------------------------------- actions
\* an exception leaves __call__
Raise(exc, tr) ==
    /\ pc' = "aborted"
    /\ result' = exc
    /\ trace' = Append(tr, <<"raise", exc>>)

\* __call__ runs to its end
Finish(tr) ==
    /\ pc' = "done"
    /\ result' = "success"
    /\ trace' = tr \o << <<"out", "cz bump --changelog">>,
                         <<"out", "The configuration are all set.">> >>

\* the early return is missing
Call_NoShortCircuit ==
    /\ pc = "call"
    /\ pc' = "ask_config_path"
    /\ result' = result
    /\ trace' = IF self_config.path # None
                THEN trace \o << <<"out", "Config file already exists">>,
                                 <<"ask", "config_path">> >>
                ELSE Append(trace, <<"ask", "config_path">>)
    /\ UNCHANGED <<runs, self_config, fs_config, git, pre_commit_file, locals>>

\* __call__ up to the first prompt
Call ==
    /\ pc = "call"
    /\ IF self_config.path # None
       THEN /\ pc' = "done"
            /\ result' = "success"
            /\ trace' = Append(trace, <<"out", "Config file already exists">>)
       ELSE /\ pc' = "ask_config_path"
            /\ result' = result
            /\ trace' = Append(trace, <<"ask", "config_path">>)
    /\ UNCHANGED <<runs, self_config, fs_config, git, pre_commit_file, locals>>

\* _ask_name is entered after the empty document was created
AnswerConfigPath ==
    /\ pc = "ask_config_path"
    /\ \E config_path \in {None} \cup {Some(p) : p \in config_files} :
         IF config_path = None
         THEN /\ Raise("TypeError", trace)
              /\ UNCHANGED <<self_config, fs_config>>
         ELSE /\ self_config' = NewConfig(self_config, config_path[1])
              /\ fs_config' = Some(self_config')
              /\ pc' = "ask_name"
              /\ result' = result
              /\ trace' = trace \o << <<"config", "init_empty">>,
                                      <<"ask", "name">> >>
    /\ UNCHANGED <<runs, git, pre_commit_file, locals>>

\* lines 41-42 and _ask_tag_format up to its first prompt, once _ask_tag
\* returned t; values is values_to_add and tr the trace at that point
AfterAskTag(t, values, tr) ==
    /\ tag' = Some(t)
    /\ IF ~IsValidVersion(t)
       THEN /\ Raise("InvalidVersion", tr)
            /\ values_to_add' = values
       ELSE /\ values_to_add' = SetItem(values, "version", Public(t))
            /\ result' = result
            /\ IF StartsWith(t, <<"v">>)
               THEN /\ pc' = "confirm_format"
                    /\ trace' = Append(tr, <<"ask", "confirm_format">>)
               ELSE /\ pc' = "ask_tag_format"
                    /\ trace' = Append(tr, <<"ask", "tag_format">>)

\* the name is written to the configuration as soon as it is chosen
AnswerName_EagerSetKey ==
    /\ pc = "ask_name"
    /\ \E name \in registry :
         LET named == SetItem(values_to_add, "name", name)
             tr == trace \o << <<"set_key", "name">>, <<"git", "latest_tag">> >>
         IN /\ latest_tag' = git.latest
            /\ self_config' = set_key(self_config, "name", name)
            /\ fs_config' = Some(self_config')
            /\ IF ~NonEmpty(git.latest)
               THEN AfterAskTag(DefaultTag, named,
                                Append(tr, <<"out.error", "No Existing Tag">>))
               ELSE /\ values_to_add' = named
                    /\ pc' = "confirm_tag"
                    /\ result' = result
                    /\ trace' = Append(tr, <<"ask", "confirm_tag">>)
                    /\ UNCHANGED tag
    /\ UNCHANGED <<runs, git, pre_commit_file, is_correct_tag,
                   is_correct_format, entered_format, tag_format, hook_types,
                   cmd_str>>

\* the answer of _ask_name, then _ask_tag up to its first prompt
AnswerName ==
    /\ pc = "ask_name"
    /\ \E name \in registry :
         LET named == SetItem(values_to_add, "name", name)
             tr == Append(trace, <<"git", "latest_tag">>)
         IN /\ latest_tag' = git.latest
            /\ IF ~NonEmpty(git.latest)
               THEN AfterAskTag(DefaultTag, named,
                                Append(tr, <<"out.error", "No Existing Tag">>))
               ELSE /\ values_to_add' = named
                    /\ pc' = "confirm_tag"
                    /\ result' = result
                    /\ trace' = Append(tr, <<"ask", "confirm_tag">>)
                    /\ UNCHANGED tag
    /\ UNCHANGED <<runs, self_config, fs_config, git, pre_commit_file,
                   is_correct_tag, is_correct_format, entered_format,
                   tag_format, hook_types, cmd_str>>

\* the answer of "Is ... the latest tag?", then the rest of _ask_tag
AnswerConfirmTag ==
    /\ pc = "confirm_tag"
    /\ \E answer \in ConfirmAnswers :
         /\ is_correct_tag' = Some(answer)
         /\ IF Truthy(answer)
            THEN /\ AfterAskTag(latest_tag[1], values_to_add, trace)
                 /\ UNCHANGED latest_tag
            ELSE LET tags == git.tag_names
                     tr == Append(trace, <<"git", "tag_names">>)
                 IN IF Len(tags) = 0
                    THEN /\ AfterAskTag(DefaultTag, values_to_add,
                                        Append(tr, <<"out.error", "No Existing Tag">>))
                         /\ UNCHANGED latest_tag
                    ELSE /\ pc' = "select_tag"
                         /\ result' = result
                         /\ trace' = tr \o << <<"git", "tag_names">>,
                                              <<"ask", "select_tag">> >>
                         /\ UNCHANGED <<latest_tag, tag, values_to_add>>
    /\ UNCHANGED <<runs, self_config, fs_config, git, pre_commit_file,
                   is_correct_format, entered_format, tag_format, hook_types,
                   cmd_str>>

\* no selection is treated like no tags
AnswerSelectTag_DefaultOnNone ==
    /\ pc = "select_tag"
    /\ \E answer \in {None} \cup {Some(git.tag_names[i]) : i \in 1..Len(git.tag_names)} :
         /\ latest_tag' = answer
         /\ IF ~NonEmpty(answer)
            THEN AfterAskTag(DefaultTag, values_to_add, trace)
            ELSE AfterAskTag(answer[1], values_to_add, trace)
    /\ UNCHANGED <<runs, self_config, fs_config, git, pre_commit_file,
                   is_correct_tag, is_correct_format, entered_format,
                   tag_format, hook_types, cmd_str>>

\* the first tag of the list is returned, whatever was selected
AnswerSelectTag_FirstTag ==
    /\ pc = "select_tag"
    /\ \E answer \in {None} \cup {Some(git.tag_names[i]) : i \in 1..Len(git.tag_names)} :
         /\ latest_tag' = answer
         /\ IF ~NonEmpty(answer)
            THEN /\ Raise("NoAnswersError", trace)
                 /\ UNCHANGED <<tag, values_to_add>>
            ELSE AfterAskTag(git.tag_names[1], values_to_add, trace)
    /\ UNCHANGED <<runs, self_config, fs_config, git, pre_commit_file,
                   is_correct_tag, is_correct_format, entered_format,
                   tag_format, hook_types, cmd_str>>

\* the answer of "Please choose the latest tag", then the rest of _ask_tag
AnswerSelectTag ==
    /\ pc = "select_tag"
    /\ \E answer \in {None} \cup {Some(git.tag_names[i]) : i \in 1..Len(git.tag_names)} :
         /\ latest_tag' = answer
         /\ IF ~NonEmpty(answer)
            THEN /\ Raise("NoAnswersError", trace)
                 /\ UNCHANGED <<tag, values_to_add>>
            ELSE AfterAskTag(answer[1], values_to_add, trace)
    /\ UNCHANGED <<runs, self_config, fs_config, git, pre_commit_file,
                   is_correct_tag, is_correct_format, entered_format,
                   tag_format, hook_types, cmd_str>>

\* the end of _ask_tag_format, _update_config_file and the hook prompt
AfterAskTagFormat(format) ==
    LET values == SetItem(values_to_add, "tag_format", format)
    IN /\ tag_format' = Some(format)
       /\ values_to_add' = values
       /\ self_config' = _update_config_file(self_config, values)
       /\ fs_config' = Some(self_config')
       /\ pc' = "ask_hook_types"
       /\ result' = result
       /\ trace' = (trace \o SetKeyEvents(values)) \o << <<"ask", "hook_types">> >>

\* the proposal without its prefix
ProposedFormat_NoPrefix == S_version

\* tag_format = r"v$version", proposed for a tag that starts with "v"
ProposedFormat == S_v_version

\* the answer of 'Is "v$version" the correct tag format?'
AnswerConfirmFormat ==
    /\ pc = "confirm_format"
    /\ \E answer \in ConfirmAnswers :
         /\ is_correct_format' = Some(answer)
         /\ IF Truthy(answer)
            THEN AfterAskTagFormat(ProposedFormat)
            ELSE /\ pc' = "ask_tag_format"
                 /\ result' = result
                 /\ trace' = Append(trace, <<"ask", "tag_format">>)
                 /\ UNCHANGED <<tag_format, values_to_add, self_config, fs_config>>
    /\ UNCHANGED <<runs, git, pre_commit_file, latest_tag, is_correct_tag, tag,
                   entered_format, hook_types, cmd_str>>

\* `is None` in place of `not`
EnteredFormat_NoneOnly(answer) == IF answer = None THEN S_version ELSE answer[1]

\* what _ask_tag_format returns for an answer of the free-form prompt
EnteredFormat(answer) == IF ~NonEmpty(answer) THEN S_version ELSE answer[1]

\* the answer of "Please enter the correct version format"
AnswerTagFormat ==
    /\ pc = "ask_tag_format"
    /\ \E answer \in FormatAnswers :
         /\ entered_format' = Some(answer)
         /\ AfterAskTagFormat(EnteredFormat(answer))
    /\ UNCHANGED <<runs, git, pre_commit_file, latest_tag, is_correct_tag, tag,
                   is_correct_format, hook_types, cmd_str>>

\* `is not None` in place of the truth value
AnswerHookTypes_NotNone ==
    /\ pc = "ask_hook_types"
    /\ \E answer \in HookTypeAnswers :
         /\ hook_types' = Some(answer)
         /\ IF answer # None
            THEN /\ pc' = "install_pre_commit_hook"
                 /\ result' = result
                 /\ trace' = trace
            ELSE Finish(trace)
    /\ UNCHANGED <<runs, self_config, fs_config, git, pre_commit_file,
                   values_to_add, latest_tag, is_correct_tag, tag,
                   is_correct_format, entered_format, tag_format, cmd_str>>

\* the answer of the hook type checkbox
AnswerHookTypes ==
    /\ pc = "ask_hook_types"
    /\ \E answer \in HookTypeAnswers :
         /\ hook_types' = Some(answer)
         /\ IF NonEmpty(answer)
            THEN /\ pc' = "install_pre_commit_hook"
                 /\ result' = result
                 /\ trace' = trace
            ELSE Finish(trace)
    /\ UNCHANGED <<runs, self_config, fs_config, git, pre_commit_file,
                   values_to_add, latest_tag, is_correct_tag, tag,
                   is_correct_format, entered_format, tag_format, cmd_str>>

\* an entry that is found ends the function with success at once
MergePreCommitConfig_ReturnWhenPresent ==
    /\ pc = "install_pre_commit_hook"
    /\ IF /\ pre_commit_file.isfile
          /\ HasKey(pre_commit_file.text, "repos")
          /\ HasCzHook(Get(pre_commit_file.text, "repos"))
       THEN /\ Finish(trace \o << <<"file", "isfile">>, <<"file", "read">>,
                        <<"out", "commitizen already in pre-commit config">> >>)
            /\ UNCHANGED pre_commit_file
       ELSE /\ pre_commit_file' = MergedFile(pre_commit_file)
            /\ pc' = "search_pre_commit"
            /\ result' = result
            /\ trace' = trace
                 \o << <<"file", "isfile">> >>
                 \o (IF pre_commit_file.isfile THEN << <<"file", "read">> >> ELSE <<>>)
                 \o << <<"file", "write">> >>
    /\ UNCHANGED <<runs, self_config, fs_config, git, locals>>

\* the executable is looked up before the file is rewritten
MergePreCommitConfig_NoWrite ==
    /\ pc = "install_pre_commit_hook"
    /\ pc' = "search_pre_commit"
    /\ trace' = trace
         \o << <<"file", "isfile">> >>
         \o (IF pre_commit_file.isfile THEN << <<"file", "read">> >> ELSE <<>>)
    /\ UNCHANGED <<runs, result, self_config, fs_config, git, pre_commit_file,
                   locals>>

\* _install_pre_commit_hook, lines 141-173: read, merge and rewrite the file
MergePreCommitConfig ==
    /\ pc = "install_pre_commit_hook"
    /\ pre_commit_file' = MergedFile(pre_commit_file)
    /\ pc' = "search_pre_commit"
    /\ trace' = trace
         \o << <<"file", "isfile">> >>
         \o (IF pre_commit_file.isfile THEN << <<"file", "read">> >> ELSE <<>>)
         \o (IF /\ pre_commit_file.isfile
                /\ HasKey(pre_commit_file.text, "repos")
                /\ HasCzHook(Get(pre_commit_file.text, "repos"))
             THEN << <<"out", "commitizen already in pre-commit config">> >>
             ELSE <<>>)
         \o << <<"file", "write">> >>
    /\ UNCHANGED <<runs, result, self_config, fs_config, git, locals>>

\* the argument _install_pre_commit_hook passes on
HookTypesOrDefault(types) ==
    IF types = None THEN <<S_commit_msg, S_pre_push>> ELSE types[1]

\* _install_pre_commit_hook, lines 175-182, up to cmd.run
SearchPreCommit ==
    /\ pc = "search_pre_commit"
    /\ \E found \in BOOLEAN :
         LET tr == Append(trace, <<"which", "pre-commit">>)
             types == HookTypesOrDefault(hook_types[1])
         IN IF ~found
            THEN /\ Raise("InitFailedError",
                          Append(tr, <<"out.error", "pre-commit is not installed">>))
                 /\ UNCHANGED cmd_str
            ELSE IF Len(types) = 0
            THEN /\ Raise("ValueError", tr)
                 /\ UNCHANGED cmd_str
            ELSE /\ cmd_str' = Some(InstallCmd(types))
                 /\ pc' = "cmd_run"
                 /\ result' = result
                 /\ trace' = Append(tr, <<"cmd", "run">>)
    /\ UNCHANGED <<runs, self_config, fs_config, git, pre_commit_file,
                   values_to_add, latest_tag, is_correct_tag, tag,
                   is_correct_format, entered_format, tag_format, hook_types>>

\* the return code is not looked at
CmdReturn_IgnoreReturnCode ==
    /\ pc = "cmd_run"
    /\ \E return_code \in {0, 1} :
         IF return_code # 0
         THEN Finish(Append(trace, <<"out.error", "Error running pre-commit install">>))
         ELSE Finish(Append(trace, <<"out", "commitizen pre-commit hook is now installed">>))
    /\ UNCHANGED <<runs, self_config, fs_config, git, pre_commit_file, locals>>

\* a failed install is run once more
CmdReturn_Retry ==
    /\ pc = "cmd_run"
    /\ \E return_code \in {0, 1} :
         IF return_code # 0
         THEN IF Cardinality({i \in 1..Len(trace) : trace[i] = <<"cmd", "run">>}) < 2
              THEN /\ pc' = "cmd_run"
                   /\ result' = result
                   /\ trace' = trace \o << <<"out.error", "Error running pre-commit install">>,
                                           <<"cmd", "run">> >>
              ELSE Raise("InitFailedError",
                         Append(trace, <<"out.error", "Error running pre-commit install">>))
         ELSE Finish(Append(trace, <<"out", "commitizen pre-commit hook is now installed">>))
    /\ UNCHANGED <<runs, self_config, fs_config, git, pre_commit_file, locals>>

\* cmd.run returned: the rest of _exec_install_pre_commit_hook,
\* _install_pre_commit_hook and __call__
CmdReturn ==
    /\ pc = "cmd_run"
    /\ \E return_code \in {0, 1} :
         IF return_code # 0
         THEN Raise("InitFailedError",
                    Append(trace, <<"out.error", "Error running pre-commit install">>))
         ELSE Finish(Append(trace, <<"out", "commitizen pre-commit hook is now installed">>))
    /\ UNCHANGED <<runs, self_config, fs_config, git, pre_commit_file, locals>>

\* the command is invoked again on the same project
Reinvoke ==
    /\ pc \in {"done", "aborted"}
    /\ runs < MaxRuns
    /\ runs' = runs + 1
    /\ pc' = "call"
    /\ result' = "running"
    /\ trace' = <<>>
    /\ self_config' = read_cfg(fs_config)
    /\ values_to_add' = <<>>
    /\ latest_tag' = None
    /\ is_correct_tag' = None
    /\ tag' = None
    /\ is_correct_format' = None
    /\ entered_format' = None
    /\ tag_format' = None
    /\ hook_types' = None
    /\ cmd_str' = None
    /\ UNCHANGED <<fs_config, git, pre_commit_file>>

Next ==
    \/ Call
    \/ AnswerConfigPath
    \/ AnswerName
    \/ AnswerConfirmTag
    \/ AnswerSelectTag
    \/ AnswerConfirmFormat
    \/ AnswerTagFormat
    \/ AnswerHookTypes
    \/ MergePreCommitConfig
    \/ SearchPreCommit
    \/ CmdReturn
    \/ Reinvoke

Spec == Init /\ [][Next]_vars

MergeSpec == MergeInit /\ [][Next]_vars

\* a step of the current run: a prompt is answered or a call returns
RunStep ==
    \/ Call
    \/ AnswerConfigPath
    \/ AnswerName
    \/ AnswerConfirmTag
    \/ AnswerSelectTag
    \/ AnswerConfirmFormat
    \/ AnswerTagFormat
    \/ AnswerHookTypes
    \/ MergePreCommitConfig
    \/ SearchPreCommit
    \/ CmdReturn

\* the wizard in a repository whose tags make every prompt reachable
LiveInit ==
    /\ InitRun
    /\ git = [latest |-> Some(S_v2_3_0), tag_names |-> TagPool]
    /\ pre_commit_file \in WizardFiles

\* every prompt is answered and every external call returns; whether the
\* command is invoked again is left open
FairSpec == LiveInit /\ [][Next]_vars /\ WF_vars(RunStep)

\* ------------------------------------------------------------ properties
\* the prompt was asked in this run
Asked(prompt) == \E i \in 1..Len(trace) : trace[i] = <<"ask", prompt>>

\* the event is in this run's trace
Happened(event) == \E i \in 1..Len(trace) : trace[i] = event

\* the run read, tested or wrote .pre-commit-config.yaml
TouchedHookFile == \E i \in 1..Len(trace) : trace[i][1] = "file"

\* the "repos" list of a file, empty when there is no file or no key
ReposOf(file) ==
    IF file.isfile /\ HasKey(file.text, "repos")
    THEN Get(file.text, "repos") ELSE <<>>

\* the number of entries whose repo contains "commitizen"
CzCount(repos) ==
    Cardinality({i \in 1..Len(repos) : Contains(repos[i].repo, S_commitizen)})

\* the step that merges the hook entry is being taken
Merging == pc = "install_pre_commit_hook" /\ pc' = "search_pre_commit"

\* C1: merging the canonical entry into a file that this run has already
\* merged and rewritten gives the same file again: merge(merge(D, E), E) =
\* merge(D, E) for every D the project started with, and the count of the
\* tool's entries does not grow.
C1_MergeIdempotent ==
    Happened(<<"file", "write">>) =>
        /\ MergedFile(pre_commit_file) = pre_commit_file
        /\ CzCount(ReposOf(MergedFile(pre_commit_file)))
             = CzCount(ReposOf(pre_commit_file))

C1_Witness ==
    /\ pc = "search_pre_commit"
    /\ ReposOf(pre_commit_file) = <<black_hook, flake8_hook, cz_hook_config>>
    /\ HasKey(pre_commit_file.text, "fail_fast")

\* C2 as stated: after the merge the list holds exactly one entry whose repo
\* contains "commitizen", whatever the file held before.
C2_ExactlyOneCzEntry ==
    Happened(<<"file", "write">>) => CzCount(ReposOf(pre_commit_file)) = 1

\* C2 amended: the merge leaves at least one such entry; it adds one exactly
\* when there was none and otherwise keeps the number the file already had,
\* so the result holds exactly one whenever the file held at most one.
C2_CzEntryCount ==
    [][Merging =>
         CzCount(ReposOf(pre_commit_file')) =
             IF CzCount(ReposOf(pre_commit_file)) = 0 THEN 1
             ELSE CzCount(ReposOf(pre_commit_file))]_vars

C2_Witness ==
    /\ pc = "search_pre_commit"
    /\ ReposOf(pre_commit_file) = <<old_cz_hook, black_hook>>

\* C3: the merge keeps every top-level key other than "repos" with its
\* value, whether "repos" had to be added or was there.
C3_OtherKeysKept ==
    [][Merging /\ pre_commit_file.isfile =>
         \A k \in Keys(pre_commit_file.text) \ {"repos"} :
             /\ HasKey(pre_commit_file'.text, k)
             /\ Get(pre_commit_file'.text, k) = Get(pre_commit_file.text, k)]_vars

\* only a file that had fail_fast and no "repos" key ends as fail_fast
\* followed by a one-entry list after the merge
C3_Witness ==
    /\ pc = "search_pre_commit"
    /\ pre_commit_file.text = << fail_fast, <<"repos", <<cz_hook_config>> >> >>

\* C4: when no entry of the existing list contains "commitizen", the merged
\* list is the old list followed by the canonical entry.
C4_AppendedLast ==
    [][Merging /\ pre_commit_file.isfile /\ HasKey(pre_commit_file.text, "repos")
         /\ CzCount(ReposOf(pre_commit_file)) = 0 =>
         ReposOf(pre_commit_file') =
             Append(ReposOf(pre_commit_file), cz_hook_config)]_vars

C4_Witness ==
    /\ pc = "search_pre_commit"
    /\ ReposOf(pre_commit_file) = <<flake8_hook, black_hook, cz_hook_config>>

\* C5: when an entry of the existing list contains "commitizen", the merged
\* list is the existing list, element for element; the old revision stays.
C5_ListUnchanged ==
    [][Merging /\ CzCount(ReposOf(pre_commit_file)) > 0 =>
         ReposOf(pre_commit_file') = ReposOf(pre_commit_file)]_vars

C5_Witness ==
    /\ pc = "search_pre_commit"
    /\ ReposOf(pre_commit_file) = <<black_hook, old_cz_hook>>
    /\ old_cz_hook.rev # cz_hook_config.rev
    /\ Happened(<<"out", "commitizen already in pre-commit config">>)

\* C6: a run that starts with the path of an existing configuration file
\* ends at once with success; it asks nothing, leaves the configuration and
\* the hook file as they are and runs no command, so that the next run
\* starts from the same files and does the same.
C6_ExistingConfigNoOp ==
    [][pc = "call" /\ self_config.path # None =>
         /\ pc' = "done"
         /\ result' = "success"
         /\ \A i \in 1..Len(trace') : trace'[i][1] = "out"
         /\ fs_config' = fs_config
         /\ self_config' = self_config
         /\ pre_commit_file' = pre_commit_file
         /\ cmd_str' = None]_vars

C6_Witness ==
    /\ runs = 2
    /\ pc = "done"
    /\ result = "success"
    /\ fs_config = Some(ExistingConfig)
    /\ trace = << <<"out", "Config file already exists">> >>

\* C7: when the repository has no latest tag the resolver returns "0.0.1"
\* and asks neither the confirmation nor the list; when the confirmation was
\* declined and the tag list is empty it returns "0.0.1" and does not ask
\* the list.
C7_DefaultTagOnNoTags ==
    /\ (Happened(<<"git", "latest_tag">>) /\ ~NonEmpty(git.latest)) =>
           /\ tag = Some(S_0_0_1)
           /\ ~Asked("confirm_tag")
           /\ ~Asked("select_tag")
    /\ (is_correct_tag # None /\ ~Truthy(is_correct_tag[1])
          /\ Len(git.tag_names) = 0) =>
           /\ tag = Some(S_0_0_1)
           /\ ~Asked("select_tag")

C7_Witness ==
    /\ is_correct_tag = Some(Some(FALSE))
    /\ Len(git.tag_names) = 0
    /\ tag = Some(S_0_0_1)
    /\ Happened(<<"out.error", "No Existing Tag">>)

\* C8: an accepted confirmation of the proposed format makes the inferrer
\* return "v$version" for a tag that starts with "v" without asking for a
\* template; for a tag that does not start with "v" the confirmation is
\* never asked.
C8_ConfirmedFormat ==
    /\ (is_correct_format # None /\ Truthy(is_correct_format[1])) =>
           /\ StartsWith(tag[1], <<"v">>)
           /\ tag_format = Some(S_v_version)
           /\ ~Asked("tag_format")
    /\ (tag # None /\ ~StartsWith(tag[1], <<"v">>)) => ~Asked("confirm_format")

C8_Witness ==
    /\ tag = Some(S_v2_3_0)
    /\ is_correct_format = Some(Some(TRUE))
    /\ tag_format = Some(S_v_version)

\* C9: an empty or absent answer to the template prompt makes the inferrer
\* return "$version"; any other answer is returned as entered.
C9_EnteredFormat ==
    entered_format # None =>
        /\ (entered_format[1] = None \/ entered_format[1] = Some(<<>>)) =>
               tag_format = Some(S_version)
        /\ (entered_format[1] # None /\ entered_format[1] # Some(<<>>)) =>
               tag_format = entered_format[1]

C9_Witness ==
    /\ entered_format = Some(Some(<<>>))
    /\ tag_format = Some(S_version)
    /\ tag = Some(S_v2_3_0)

\* C10: no selection at the list prompt raises NoAnswersError: the run is
\* aborted with no key set in the configuration, without the tag format
\* and hook prompts and without touching the hook file.
C10_TagRequired ==
    (Asked("select_tag") /\ pc # "select_tag" /\ ~NonEmpty(latest_tag)) =>
        /\ pc = "aborted"
        /\ result = "NoAnswersError"
        /\ tag = None
        /\ Keys(self_config.data) = {}
        /\ Keys(fs_config[1].data) = {}
        /\ ~Asked("confirm_format")
        /\ ~Asked("tag_format")
        /\ ~Asked("hook_types")
        /\ ~TouchedHookFile
        /\ cmd_str = None

C10_Witness ==
    /\ pc = "aborted"
    /\ result = "NoAnswersError"
    /\ is_correct_tag = Some(Some(FALSE))
    /\ Len(git.tag_names) > 0
    /\ latest_tag = None

\* how often the event is in this run's trace
Count(event) == Cardinality({i \in 1..Len(trace) : trace[i] = event})

\* the first occurrence of the event in this run's trace
IndexOf(event) == CHOOSE i \in 1..Len(trace) :
                      trace[i] = event /\ \A j \in 1..(i - 1) : trace[j] # event

\* the hook manager was not found, or its install command failed
InstallFailed ==
    \/ Happened(<<"out.error", "pre-commit is not installed">>)
    \/ Happened(<<"out.error", "Error running pre-commit install">>)

\* the three keys of the bootstrap, with the values resolved in this run
BootstrapData ==
    << <<"name", Get(values_to_add, "name")>>,
       <<"version", Get(values_to_add, "version")>>,
       <<"tag_format", tag_format[1]>> >>

\* C11: with a hook type selected, a hook manager that is not found or an
\* install command that fails ends the run aborted with InitFailedError,
\* never done, and the configuration still holds name, version and
\* tag_format as the bootstrap wrote them, in the document and on disk.
C11_InstallFailureAborts ==
    InstallFailed =>
        /\ NonEmpty(hook_types[1])
        /\ pc = "aborted"
        /\ result = "InitFailedError"
        /\ self_config.data = BootstrapData
        /\ fs_config = Some(self_config)

C11_Witness ==
    /\ pc = "aborted"
    /\ Happened(<<"out.error", "Error running pre-commit install">>)
    /\ self_config.data = BootstrapData
    /\ Get(self_config.data, "tag_format") = S_v_version

\* C12: once a hook type is selected and the hook manager is found, the
\* install command is run exactly once and after the hook file was written;
\* a run that ends done with a hook type selected has run it, also when the
\* tool's entry was in the file before.
C12_InstallOnceAfterWrite ==
    /\ (Happened(<<"which", "pre-commit">>)
          /\ ~Happened(<<"out.error", "pre-commit is not installed">>)) =>
           /\ Count(<<"cmd", "run">>) = 1
           /\ Count(<<"file", "write">>) = 1
           /\ IndexOf(<<"file", "write">>) < IndexOf(<<"cmd", "run">>)
    /\ (pc = "done" /\ hook_types # None /\ NonEmpty(hook_types[1])) =>
           /\ Count(<<"cmd", "run">>) = 1
           /\ IndexOf(<<"file", "write">>) < IndexOf(<<"cmd", "run">>)

C12_Witness ==
    /\ pc = "done"
    /\ Happened(<<"out", "commitizen already in pre-commit config">>)
    /\ Count(<<"cmd", "run">>) = 1
    /\ hook_types = Some(Some(<<S_commit_msg, S_pre_push>>))

\* C13: with no hook type selected the run is done with success at once:
\* the hook file is not tested, read or written, the executable is not
\* searched for and no command is run.
C13_NoHookTypesDone ==
    (hook_types # None /\ ~NonEmpty(hook_types[1])) =>
        /\ pc = "done"
        /\ result = "success"
        /\ ~TouchedHookFile
        /\ ~Happened(<<"which", "pre-commit">>)
        /\ ~Happened(<<"cmd", "run">>)
        /\ cmd_str = None

C13_Witness ==
    /\ hook_types = Some(Some(<<>>))
    /\ pc = "done"
    /\ result = "success"
    /\ pre_commit_file = [isfile |-> FALSE, text |-> <<>>]

\* C14: the command line that is run is one `pre-commit install` whose
\* --hook-type options have, in selection order, exactly the selected hook
\* types as their values.
C14_EachTypeOwnOption ==
    cmd_str # None =>
        LET argv == Words(cmd_str[1])
        IN /\ Len(argv) >= 2
           /\ Join(SubSeq(argv, 1, 2), <<" ">>) \o <<" ">> = S_pre_commit_install
           /\ HookTypeValues(argv) = hook_types[1][1]

\* a trace event is a set_key call
IsSetKey(event) == event[1] = "set_key"

\* a tag of the pool without its leading "v"
Unprefixed(t) == IF t[1] = "v" THEN SubSeq(t, 2, Len(t)) ELSE t

\* C15: when the bootstrap is complete, set_key was called exactly three
\* times, for name, version and tag_format in this order, and the document
\* holds the chosen rule, the tag without its prefix and the inferrer's
\* result; v2.3.0 confirmed with the proposed format confirmed gives 2.3.0
\* and v$version, no tag with an empty template answer gives 0.0.1 and
\* $version.
C15_BootstrapKeys ==
    tag_format # None =>
        /\ SelectSeq(trace, IsSetKey) =
               << <<"set_key", "name">>, <<"set_key", "version">>,
                  <<"set_key", "tag_format">> >>
        /\ Get(values_to_add, "name") \in registry
        /\ self_config.data =
               << <<"name", Get(values_to_add, "name")>>,
                  <<"version", Unprefixed(tag[1])>>,
                  <<"tag_format", tag_format[1]>> >>
        /\ fs_config = Some(self_config)
        /\ (/\ tag = Some(S_v2_3_0)
            /\ is_correct_tag # None /\ Truthy(is_correct_tag[1])
            /\ is_correct_format # None /\ Truthy(is_correct_format[1])) =>
               /\ Get(self_config.data, "version") = <<"2", ".", "3", ".", "0">>
               /\ Get(self_config.data, "tag_format") = S_v_version
        /\ (/\ git.latest = None
            /\ entered_format \in {Some(None), Some(Some(<<>>))}) =>
               /\ Get(self_config.data, "version") = S_0_0_1
               /\ Get(self_config.data, "tag_format") = S_version

C15_Witness ==
    /\ pc = "ask_hook_types"
    /\ self_config.path = Some(S_cz_toml)
    /\ git.latest = None
    /\ entered_format = Some(Some(<<>>))
    /\ self_config.data =
           << <<"name", S_cz_conventional_commits>>, <<"version", S_0_0_1>>,
              <<"tag_format", S_version>> >>

\* the prompts of the wizard
Prompts ==
    {"config_path", "name", "confirm_tag", "select_tag", "confirm_format",
     "tag_format", "hook_types"}

\* the run has ended
Terminal == pc \in {"done", "aborted"}

\* C16: a run whose prompts and calls all return ends done or aborted, done
\* exactly with success and aborted exactly with an exception, and stays
\* there until the command is invoked anew; in a run no prompt is asked
\* twice and the hook file write, the executable lookup and the install
\* command happen at most once, so nothing is retried.
C16_EndsOnceNoRetry ==
    /\ [](/\ \A p \in Prompts : Count(<<"ask", p>>) <= 1
          /\ Count(<<"file", "write">>) <= 1
          /\ Count(<<"which", "pre-commit">>) <= 1
          /\ Count(<<"cmd", "run">>) <= 1
          /\ (pc = "done") = (result = "success")
          /\ (pc = "aborted") = (result \notin {"running", "success"}))
    /\ [][Terminal =>
            \/ (pc' = pc /\ result' = result /\ trace' = trace)
            \/ (runs' = runs + 1 /\ pc' = "call" /\ trace' = <<>>)]_vars
    /\ (~Terminal) ~> Terminal

C16_Witness ==
    /\ pc = "aborted"
    /\ result = "InitFailedError"
    /\ Count(<<"cmd", "run">>) = 1
    /\ \A p \in Prompts \ {"select_tag"} : Count(<<"ask", p>>) = 1

\* C17: merging into no file or into a file without content writes a
\* mapping whose only key is "repos" with the list [cz_hook_config]; merging
\* into a file with content but without "repos" adds the key with exactly
\* that list.
C17_NewEntryList ==
    [][Merging =>
         /\ (~pre_commit_file.isfile \/ Len(pre_commit_file.text) = 0) =>
                /\ pre_commit_file'.isfile
                /\ pre_commit_file'.text = << <<"repos", <<cz_hook_config>> >> >>
         /\ (/\ pre_commit_file.isfile
             /\ Len(pre_commit_file.text) > 0
             /\ ~HasKey(pre_commit_file.text, "repos")) =>
                /\ HasKey(pre_commit_file'.text, "repos")
                /\ Get(pre_commit_file'.text, "repos") = <<cz_hook_config>>]_vars

\* the file was absent or empty: only then is the written mapping the
\* entry list alone
C17_Witness ==
    /\ pc = "search_pre_commit"
    /\ pre_commit_file =
           [isfile |-> TRUE, text |-> << <<"repos", <<cz_hook_config>> >> >>]
    /\ ~Happened(<<"file", "read">>)

\* C20: the hook file is written before the executable is looked up; when
\* the executable is not found the run is aborted with the file rewritten
\* and holding the tool's entry, and no command was run.
C20_WrittenBeforeLookup ==
    /\ Happened(<<"which", "pre-commit">>) =>
           /\ Happened(<<"file", "write">>)
           /\ IndexOf(<<"file", "write">>) < IndexOf(<<"which", "pre-commit">>)
    /\ Happened(<<"out.error", "pre-commit is not installed">>) =>
           /\ pc = "aborted"
           /\ result = "InitFailedError"
           /\ pre_commit_file.isfile
           /\ CzCount(ReposOf(pre_commit_file)) >= 1
           /\ cmd_str = None
           /\ ~Happened(<<"cmd", "run">>)

C20_Witness ==
    /\ pc = "aborted"
    /\ Happened(<<"out.error", "pre-commit is not installed">>)
    /\ ~Happened(<<"file", "read">>)
    /\ ReposOf(pre_commit_file) = <<cz_hook_config>>

\* the tags get_tag_names() lists
TagNames == {git.tag_names[i] : i \in 1..Len(git.tag_names)}

\* C18: with a latest tag the confirmation is asked exactly once; accepted,
\* the resolver returns the latest tag and the list is not shown; declined
\* with tags to choose from, the list is shown and the resolver returns the
\* selected tag; every tag returned is "0.0.1" or a tag of the repository.
C18_ResolvedTag ==
    /\ (Happened(<<"git", "latest_tag">>) /\ NonEmpty(git.latest)) =>
           Count(<<"ask", "confirm_tag">>) = 1
    /\ (is_correct_tag # None /\ Truthy(is_correct_tag[1])) =>
           /\ tag = git.latest
           /\ ~Asked("select_tag")
    /\ (is_correct_tag # None /\ ~Truthy(is_correct_tag[1])
          /\ Len(git.tag_names) > 0) =>
           /\ Count(<<"ask", "select_tag">>) = 1
           /\ (pc # "select_tag" /\ NonEmpty(latest_tag)) =>
                  /\ tag = latest_tag
                  /\ tag[1] \in TagNames
    /\ tag # None =>
           \/ tag[1] = S_0_0_1
           \/ tag = git.latest
           \/ tag[1] \in TagNames

C18_Witness ==
    /\ git.latest = Some(S_v2_3_0)
    /\ is_correct_tag = Some(Some(FALSE))
    /\ latest_tag = Some(S_1_0_0)
    /\ tag = Some(S_1_0_0)

\* the configuration document created in this run
CreatedConfig == Happened(<<"config", "init_empty">>)

\* C19: set_key is first called when name, tag, version and tag format are
\* all resolved, and the hook prompt is asked after the three keys are set;
\* a run that ends with NoAnswersError or with an invalid version has
\* written no key and has not reached the hook phase.
C19_KeysAfterResolution ==
    /\ (CreatedConfig /\ tag_format = None) =>
           /\ Len(SelectSeq(trace, IsSetKey)) = 0
           /\ Keys(self_config.data) = {}
           /\ Keys(fs_config[1].data) = {}
    /\ Len(SelectSeq(trace, IsSetKey)) > 0 =>
           /\ self_config.path # None
           /\ tag # None
           /\ tag_format # None
           /\ Keys(values_to_add) = {"name", "version", "tag_format"}
    /\ Asked("hook_types") =>
           /\ Keys(self_config.data) = {"name", "version", "tag_format"}
           /\ \A k \in {"name", "version", "tag_format"} :
                  IndexOf(<<"set_key", k>>) < IndexOf(<<"ask", "hook_types">>)
    /\ result \in {"NoAnswersError", "InvalidVersion"} =>
           /\ pc = "aborted"
           /\ Keys(self_config.data) = {}
           /\ Keys(fs_config[1].data) = {}
           /\ ~Asked("hook_types")
           /\ ~TouchedHookFile
           /\ ~Happened(<<"which", "pre-commit">>)

C19_Witness ==
    /\ result = "InvalidVersion"
    /\ tag = Some(S_rel)
    /\ Keys(self_config.data) = {}
    /\ HasKey(values_to_add, "name")
====
